---- MODULE Spec2Model ----
(***************************************************************************)
(* Model of libbitcoin::protocol::zmq::worker (src/src/zmq/worker.cpp).    *)
(*                                                                         *)
(* Caller threads invoke start() and stop(); each start() that finds the   *)
(* worker stopped spawns a background thread running the concrete work     *)
(* loop, which takes part in the handshake through started(), stopped(),   *)
(* finished(), forward() and relay().                                      *)
(*                                                                         *)
(* A std::promise<bool> is modelled as a sequence: <<>> while no value is  *)
(* set, <<v>> once set_value(v) has run.  future.get() blocks while the    *)
(* sequence is empty.                                                      *)
(***************************************************************************)
EXTENDS Integers, Sequences, FiniteSets, TLC

\* ---------------------------------------------------------------- bounds
NumCallers == 2      \* caller threads that invoke start()/stop()
MaxCalls == 4        \* start()/stop() calls made over a run, all callers together
MaxCycles == 3       \* start(); stop() cycles of the restart scenario
MaxSpawn == 3        \* background threads spawned over a run (restart cycles)
MaxQueue == 2        \* messages an endpoint holds (forward)
NumMsgs == 2         \* distinct message payloads (forward)

Callers == 1..NumCallers
Threads == 1..MaxSpawn
Msgs == 1..NumMsgs
NoCaller == 0
NoThread == 0

VARIABLES
    \* worker members
    stopped_,     \* stopped_: the running flag, inverted
    started_,     \* std::promise<bool> started_
    finished_,    \* std::promise<bool> finished_
    thread_,      \* std::shared_ptr<asio::thread> thread_ (NoThread = null)
    mutex_,       \* owner of mutex_ (NoCaller = unlocked)
    \* caller threads
    cpc,          \* position of each caller: idle / *_lock / *_wait
    op,           \* the call the caller is in or made last: none/start/stop
    ret,          \* <<>> while in a call, <<r>> once it returned r
    budget,       \* start()/stop() calls the callers may still make
    spawnedBy,    \* thread spawned by the caller's current/last start(), or NoThread
    acqGen,       \* value of gen when the caller's current/last call took the lock
    conc,         \* callers inside start() when this caller's start() took the lock
    \* background threads
    pc,           \* position of each background thread
    tstart,       \* <<>> or <<r>>: the value the thread passed to started()
    tfin,         \* <<>> or <<r>>: the value passed to finished() for the thread
    nprio,        \* set_priority calls made by the thread
    nspawned,     \* threads spawned so far
    gen,          \* running -> stopped transitions made by stop() so far
    terminated,   \* the zmq context has been terminated (external)
    gets,         \* get() calls made on the futures of started_ and finished_
    \* endpoints used by forward
    from,         \* messages queued at the source socket
    to,           \* messages delivered to the destination socket
    fwd           \* record of the last forward() call

workerVars == <<stopped_, started_, finished_, thread_, mutex_>>
callerVars == <<cpc, op, ret, budget, spawnedBy, acqGen, conc>>
threadVars == <<pc, tstart, tfin, nprio, nspawned>>
socketVars == <<from, to, fwd>>
vars == <<stopped_, started_, finished_, thread_, mutex_,
          cpc, op, ret, budget, spawnedBy, acqGen, conc,
          pc, tstart, tfin, nprio, nspawned, gen, terminated, gets,
          from, to, fwd>>

\* fwd before any forward() call.  received/delivered: the receive/send
\* succeeded; sends: send invocations; packet: the message after receive;
\* sent: the message handed to send.
NoForward == [called |-> FALSE, received |-> FALSE, sends |-> 0,
              delivered |-> FALSE, packet |-> <<>>, sent |-> <<>>,
              result |-> FALSE]

\* worker::worker: constructed stopped, promises fresh, no thread.
Constructed ==
    /\ stopped_ = TRUE
    /\ started_ = <<>>
    /\ finished_ = <<>>
    /\ thread_ = NoThread
    /\ mutex_ = NoCaller
    /\ cpc = [c \in Callers |-> "idle"]
    /\ op = [c \in Callers |-> "none"]
    /\ ret = [c \in Callers |-> <<>>]
    /\ spawnedBy = [c \in Callers |-> NoThread]
    /\ acqGen = [c \in Callers |-> 0]
    /\ conc = [c \in Callers |-> {}]
    /\ pc = [t \in Threads |-> "none"]
    /\ tstart = [t \in Threads |-> <<>>]
    /\ tfin = [t \in Threads |-> <<>>]
    /\ nprio = [t \in Threads |-> 0]
    /\ nspawned = 0
    /\ gen = 0
    /\ terminated = FALSE
    /\ gets = [started |-> 0, finished |-> 0]
    /\ from = <<>>
    /\ to = <<>>
    /\ fwd = NoForward

Init == Constructed /\ budget = MaxCalls

\* The restart scenario makes MaxCycles start(); stop() cycles.
InitRestart == Constructed /\ budget = 2 * MaxCycles

\* ------------------------------------------------------------ worker::start

\* Callers that have invoked start() and not yet taken the lock.
StartPending == {c \in Callers : cpc[c] = "start_lock"}

\* A caller invokes start() and blocks on unique_lock lock(mutex_).
StartCall(c) ==
    /\ cpc[c] = "idle"
    /\ budget > 0
    /\ nspawned + Cardinality(StartPending) < MaxSpawn
    /\ cpc' = [cpc EXCEPT ![c] = "start_lock"]
    /\ op' = [op EXCEPT ![c] = "start"]
    /\ ret' = [ret EXCEPT ![c] = <<>>]
    /\ budget' = budget - 1
    /\ spawnedBy' = [spawnedBy EXCEPT ![c] = NoThread]
    /\ acqGen' = [acqGen EXCEPT ![c] = 0]
    /\ conc' = [conc EXCEPT ![c] = {}]
    /\ UNCHANGED <<workerVars, threadVars, gen, terminated, gets, socketVars>>

\* start() that spawns whatever the running flag is.
StartGuardAlways == TRUE

\* if (stopped_) in start().
StartGuard == stopped_

\* start() that leaves the running flag clear.
StartFlagStale == TRUE

\* stopped_ = false; in start(): the value stored.
StartFlag == FALSE

\* start() that keeps the consumed promise.
StartResetKeep(p) == p

\* started_ = std::promise<bool>(); in start(): the promise after the reset.
StartReset(p) == <<>>

\* start() that lets go of the lock while it waits on the start signal.
StartLockReleased(c) == NoCaller

\* unique_lock lock(mutex_); in start(): the holder of the lock while start()
\* waits on started_ (the lock lives to the end of the function).
StartLock(c) == c

\* The lock is taken; if (stopped_) { stopped_ = false; thread_ = make_shared
\* <asio::thread>(&worker::work, this); ... wait on started_ } else return false.
StartEnter(c) ==
    /\ cpc[c] = "start_lock"
    /\ mutex_ = NoCaller
    /\ acqGen' = [acqGen EXCEPT ![c] = gen]
    /\ conc' = [conc EXCEPT ![c] =
                  {d \in Callers \ {c} : cpc[d] \in {"start_lock", "start_wait"}}]
    /\ IF StartGuard
         THEN /\ stopped_' = StartFlag
              /\ nspawned' = nspawned + 1
              /\ thread_' = nspawned + 1
              /\ pc' = [pc EXCEPT ![nspawned + 1] = "spawned"]
              /\ spawnedBy' = [spawnedBy EXCEPT ![c] = nspawned + 1]
              /\ mutex_' = StartLock(c)
              /\ cpc' = [cpc EXCEPT ![c] = "start_wait"]
              /\ UNCHANGED ret
         ELSE /\ ret' = [ret EXCEPT ![c] = <<FALSE>>]
              /\ cpc' = [cpc EXCEPT ![c] = "idle"]
              /\ UNCHANGED <<stopped_, nspawned, thread_, pc, spawnedBy, mutex_>>
    /\ UNCHANGED <<started_, finished_, op, budget, tstart, tfin, nprio,
                   gen, terminated, gets, socketVars>>

\* start() that marks the worker stopped again when the start failed.
StartReturnRestores(c) ==
    /\ cpc[c] = "start_wait"
    /\ started_ # <<>>
    /\ ret' = [ret EXCEPT ![c] = <<started_[1]>>]
    /\ stopped_' = ~started_[1]
    /\ started_' = <<>>
    /\ mutex_' = NoCaller
    /\ gets' = [gets EXCEPT !.started = @ + 1]
    /\ cpc' = [cpc EXCEPT ![c] = "idle"]
    /\ UNCHANGED <<finished_, thread_, op, budget, spawnedBy, acqGen,
                   conc, threadVars, gen, terminated, socketVars>>

\* const auto result = started_.get_future().get(); started_ = promise();
\* return result;  (the lock is released on return)
StartReturn(c) ==
    /\ cpc[c] = "start_wait"
    /\ started_ # <<>>
    /\ ret' = [ret EXCEPT ![c] = <<started_[1]>>]
    /\ started_' = StartReset(started_)
    /\ mutex_' = NoCaller
    /\ gets' = [gets EXCEPT !.started = @ + 1]
    /\ cpc' = [cpc EXCEPT ![c] = "idle"]
    /\ UNCHANGED <<stopped_, finished_, thread_, op, budget, spawnedBy, acqGen,
                   conc, threadVars, gen, terminated, socketVars>>

\* ------------------------------------------------------------- worker::stop

\* A caller invokes stop() and blocks on unique_lock lock(mutex_).
StopCall(c) ==
    /\ cpc[c] = "idle"
    /\ budget > 0
    /\ cpc' = [cpc EXCEPT ![c] = "stop_lock"]
    /\ op' = [op EXCEPT ![c] = "stop"]
    /\ ret' = [ret EXCEPT ![c] = <<>>]
    /\ budget' = budget - 1
    /\ spawnedBy' = [spawnedBy EXCEPT ![c] = NoThread]
    /\ acqGen' = [acqGen EXCEPT ![c] = 0]
    /\ conc' = [conc EXCEPT ![c] = {}]
    /\ UNCHANGED <<workerVars, threadVars, gen, terminated, gets, socketVars>>

\* stop() that waits whatever the running flag is.
StopGuardAlways == TRUE

\* if (!stopped_) in stop().
StopGuard == ~stopped_

\* stop() that keeps the consumed promise.
StopResetKeep(p) == p

\* finished_ = std::promise<bool>(); in stop(): the promise after the reset.
StopReset(p) == <<>>

\* The lock is taken; if (!stopped_) { stopped_ = true; ... wait on finished_ }
\* else return true.
StopEnter(c) ==
    /\ cpc[c] = "stop_lock"
    /\ mutex_ = NoCaller
    /\ acqGen' = [acqGen EXCEPT ![c] = gen]
    /\ IF StopGuard
         THEN /\ stopped_' = TRUE
              /\ gen' = gen + 1
              /\ mutex_' = c
              /\ cpc' = [cpc EXCEPT ![c] = "stop_wait"]
              /\ UNCHANGED ret
         ELSE /\ ret' = [ret EXCEPT ![c] = <<TRUE>>]
              /\ cpc' = [cpc EXCEPT ![c] = "idle"]
              /\ UNCHANGED <<stopped_, gen, mutex_>>
    /\ UNCHANGED <<started_, finished_, thread_, op, budget, spawnedBy, conc,
                   threadVars, terminated, gets, socketVars>>

\* stop() that returns without waiting on the finish signal.
StopReturnNoWait(c) ==
    /\ cpc[c] = "stop_wait"
    /\ ret' = [ret EXCEPT ![c] = <<TRUE>>]
    /\ finished_' = <<>>
    /\ mutex_' = NoCaller
    /\ gets' = gets
    /\ cpc' = [cpc EXCEPT ![c] = "idle"]
    /\ UNCHANGED <<stopped_, started_, thread_, op, budget, spawnedBy, acqGen,
                   conc, threadVars, gen, terminated, socketVars>>

\* stop() that also drops the thread handle once the finish signal is read.
StopReturnResets(c) ==
    /\ cpc[c] = "stop_wait"
    /\ finished_ # <<>>
    /\ ret' = [ret EXCEPT ![c] = <<finished_[1]>>]
    /\ finished_' = <<>>
    /\ thread_' = NoThread
    /\ mutex_' = NoCaller
    /\ gets' = [gets EXCEPT !.finished = @ + 1]
    /\ cpc' = [cpc EXCEPT ![c] = "idle"]
    /\ UNCHANGED <<stopped_, started_, op, budget, spawnedBy, acqGen,
                   conc, threadVars, gen, terminated, socketVars>>

\* const auto result = finished_.get_future().get(); finished_ = promise();
\* return result;  (the lock is released on return)
StopReturn(c) ==
    /\ cpc[c] = "stop_wait"
    /\ finished_ # <<>>
    /\ ret' = [ret EXCEPT ![c] = <<finished_[1]>>]
    /\ finished_' = StopReset(finished_)
    /\ mutex_' = NoCaller
    /\ gets' = [gets EXCEPT !.finished = @ + 1]
    /\ cpc' = [cpc EXCEPT ![c] = "idle"]
    /\ UNCHANGED <<stopped_, started_, thread_, op, budget, spawnedBy, acqGen,
                   conc, threadVars, gen, terminated, socketVars>>

\* ------------------------------------------------- the work loop's protocol

\* stopped() that never reports the stop request.
stoppedNever == FALSE

\* worker::stopped
stopped == stopped_

\* worker::finished as called for thread t: finished_.set_value(result).  A
\* promise that already holds a value throws std::future_error, which ends
\* the thread ("threw").
finished(t, result, next) ==
    IF finished_ = <<>>
      THEN /\ finished_' = <<result>>
           /\ tfin' = [tfin EXCEPT ![t] = <<result>>]
           /\ pc' = [pc EXCEPT ![t] = next]
      ELSE /\ pc' = [pc EXCEPT ![t] = "threw"]
           /\ UNCHANGED <<finished_, tfin>>

\* worker::started, first statement: started_.set_value(result).
Started(t, result) ==
    /\ pc[t] = "spawned"
    /\ IF started_ = <<>>
         THEN /\ started_' = <<result>>
              /\ tstart' = [tstart EXCEPT ![t] = <<result>>]
              /\ pc' = [pc EXCEPT ![t] = IF result THEN "set_true" ELSE "set_false"]
         ELSE /\ pc' = [pc EXCEPT ![t] = "threw"]
              /\ UNCHANGED <<started_, tstart>>
    /\ UNCHANGED <<stopped_, finished_, thread_, mutex_, callerVars, tfin, nprio,
                   nspawned, gen, terminated, gets, socketVars>>

\* started(true) that does not apply the priority.
SetPrioritySkipped(t, loop) ==
    /\ pc[t] = "set_true"
    /\ pc' = [pc EXCEPT ![t] = loop]
    /\ UNCHANGED <<workerVars, callerVars, tstart, tfin, nprio, nspawned, gen,
                   terminated, gets, socketVars>>

\* worker::started, if (result) set_priority(priority_); the work loop then
\* either polls stopped() or blocks in relay().
SetPriority(t, loop) ==
    /\ pc[t] = "set_true"
    /\ nprio' = [nprio EXCEPT ![t] = @ + 1]
    /\ pc' = [pc EXCEPT ![t] = loop]
    /\ UNCHANGED <<workerVars, callerVars, tstart, tfin, nspawned, gen,
                   terminated, gets, socketVars>>

\* started(false) that does not call finished(true).
AutoFinishSkipped(t) ==
    /\ pc[t] = "set_false"
    /\ pc' = [pc EXCEPT ![t] = "finished"]
    /\ UNCHANGED <<workerVars, callerVars, tstart, tfin, nprio, nspawned, gen,
                   terminated, gets, socketVars>>

\* started(false) that also marks the worker stopped.
AutoFinishStops(t) ==
    /\ pc[t] = "set_false"
    /\ finished(t, TRUE, "finished")
    /\ stopped_' = TRUE
    /\ UNCHANGED <<started_, thread_, mutex_, callerVars, tstart, nprio,
                   nspawned, gen, terminated, gets, socketVars>>

\* worker::started, else finished(true); the work loop then returns.
AutoFinish(t) ==
    /\ pc[t] = "set_false"
    /\ finished(t, TRUE, "finished")
    /\ UNCHANGED <<stopped_, started_, thread_, mutex_, callerVars, tstart, nprio,
                   nspawned, gen, terminated, gets, socketVars>>

\* The work loop polls stopped() and leaves the loop once it returns true.
Poll(t) ==
    /\ pc[t] = "running"
    /\ pc' = [pc EXCEPT ![t] = IF stopped THEN "exiting" ELSE "running"]
    /\ UNCHANGED <<workerVars, callerVars, tstart, tfin, nprio, nspawned, gen,
                   terminated, gets, socketVars>>

\* relay() that also returns once a stop has been requested.
RelayReturnOnStop(t) ==
    /\ pc[t] = "relay"
    /\ terminated \/ stopped
    /\ pc' = [pc EXCEPT ![t] = "exiting"]
    /\ UNCHANGED <<workerVars, callerVars, tstart, tfin, nprio, nspawned, gen,
                   terminated, gets, socketVars>>

\* worker::relay: zmq_proxy_steerable blocks until the context is terminated.
RelayReturn(t) ==
    /\ pc[t] = "relay"
    /\ terminated
    /\ pc' = [pc EXCEPT ![t] = "exiting"]
    /\ UNCHANGED <<workerVars, callerVars, tstart, tfin, nprio, nspawned, gen,
                   terminated, gets, socketVars>>

\* The work loop calls finished(result) right before it exits.
Finished(t, result) ==
    /\ pc[t] = "exiting"
    /\ finished(t, result, "finished")
    /\ UNCHANGED <<stopped_, started_, thread_, mutex_, callerVars, tstart, nprio,
                   nspawned, gen, terminated, gets, socketVars>>

\* The thread function returns: the background thread is gone.
Exit(t) ==
    /\ pc[t] = "finished"
    /\ pc' = [pc EXCEPT ![t] = "exited"]
    /\ UNCHANGED <<workerVars, callerVars, tstart, tfin, nprio, nspawned, gen,
                   terminated, gets, socketVars>>

\* The process terminates the zmq context (external to the worker).
ContextTerminate ==
    /\ ~terminated
    /\ terminated' = TRUE
    /\ UNCHANGED <<workerVars, callerVars, threadVars, gen, gets, socketVars>>

\* ----------------------------------------------------------- worker::forward

\* socket::receive(packet): the error code (TRUE = an error) and the packet.
\* It fails when nothing is queued or when the transport fails (recvErr);
\* otherwise it takes the oldest queued message.  A failed receive leaves the
\* default-constructed, empty packet.
receive(queue, recvErr) ==
    IF recvErr \/ queue = <<>>
      THEN [ec |-> TRUE, packet |-> <<>>, queue |-> queue]
      ELSE [ec |-> FALSE, packet |-> <<Head(queue)>>, queue |-> Tail(queue)]

\* socket::send(packet): the error code (TRUE = an error) and the queue of the
\* destination.  It fails at the high-water mark or when the transport fails
\* (sendErr); a failed send delivers nothing.
send(queue, packet, sendErr) ==
    IF sendErr \/ Len(queue) >= MaxQueue
      THEN [ec |-> TRUE, queue |-> queue]
      ELSE [ec |-> FALSE, queue |-> queue \o packet]

\* forward that calls send whether or not the receive succeeded.
forwardEager(src, dst, recvErr, sendErr) ==
    LET rcv == receive(src, recvErr)
        snd == send(dst, rcv.packet, sendErr)
    IN [called |-> TRUE, received |-> ~rcv.ec, sends |-> 1,
        delivered |-> ~snd.ec, packet |-> rcv.packet, sent |-> rcv.packet,
        result |-> ~rcv.ec /\ ~snd.ec, from |-> rcv.queue, to |-> snd.queue]

\* message packet; return !from.receive(packet) && !to.send(packet);
\* && evaluates its right operand only when the left one is true.
forward(src, dst, recvErr, sendErr) ==
    LET rcv == receive(src, recvErr) IN
    IF ~rcv.ec
      THEN LET snd == send(dst, rcv.packet, sendErr) IN
           [called |-> TRUE, received |-> TRUE, sends |-> 1,
            delivered |-> ~snd.ec, packet |-> rcv.packet, sent |-> rcv.packet,
            result |-> ~snd.ec, from |-> rcv.queue, to |-> snd.queue]
      ELSE [called |-> TRUE, received |-> FALSE, sends |-> 0,
            delivered |-> FALSE, packet |-> rcv.packet, sent |-> <<>>,
            result |-> FALSE, from |-> rcv.queue, to |-> dst]

\* The work loop calls forward(from, to).
Forward(recvErr, sendErr) ==
    LET f == forward(from, to, recvErr, sendErr) IN
    /\ from' = f.from
    /\ to' = f.to
    /\ fwd' = [called |-> f.called, received |-> f.received, sends |-> f.sends,
               delivered |-> f.delivered, packet |-> f.packet, sent |-> f.sent,
               result |-> f.result]
    /\ UNCHANGED <<workerVars, callerVars, threadVars, gen, terminated, gets>>

\* A peer's message arrives at the source socket.
Arrive(m) ==
    /\ Len(from) < MaxQueue
    /\ from' = Append(from, m)
    /\ UNCHANGED <<to, fwd, workerVars, callerVars, threadVars, gen, terminated, gets>>

\* A peer takes the oldest message off the destination socket.
Drain ==
    /\ to # <<>>
    /\ to' = Tail(to)
    /\ UNCHANGED <<from, fwd, workerVars, callerVars, threadVars, gen, terminated, gets>>

NextForward ==
    \/ \E recvErr, sendErr \in BOOLEAN : Forward(recvErr, sendErr)
    \/ \E m \in Msgs : Arrive(m)
    \/ Drain

\* The work loop forwarding between two endpoints.
SpecForward == Init /\ [][NextForward]_vars

CallerStep(c) ==
    \/ StartCall(c)
    \/ StartEnter(c)
    \/ StartReturn(c)
    \/ StopCall(c)
    \/ StopEnter(c)
    \/ StopReturn(c)

ThreadStep(t) ==
    \/ \E result \in BOOLEAN : Started(t, result)
    \/ \E loop \in {"running", "relay"} : SetPriority(t, loop)
    \/ AutoFinish(t)
    \/ Poll(t)
    \/ RelayReturn(t)
    \/ \E result \in BOOLEAN : Finished(t, result)
    \/ Exit(t)

Next ==
    \/ \E c \in Callers : CallerStep(c)
    \/ \E t \in Threads : ThreadStep(t)
    \/ ContextTerminate

Spec == Init /\ [][Next]_vars

\* ---------------------------------------------------------------- scenarios

\* The caller that starts the worker in the scenarios.
Solo == CHOOSE c \in Callers : \A d \in Callers : c <= d

\* start(); stop() repeated by one caller, with a work loop that calls
\* started(true), polls stopped() and then calls finished(r).
NextRestart ==
    \/ op[Solo] # "start" /\ StartCall(Solo)
    \/ StartEnter(Solo)
    \/ StartReturn(Solo)
    \/ op[Solo] = "start" /\ StopCall(Solo)
    \/ StopEnter(Solo)
    \/ StopReturn(Solo)
    \/ \E t \in Threads : Started(t, TRUE)
    \/ \E t \in Threads : SetPriority(t, "running")
    \/ \E t \in Threads : Poll(t)
    \/ \E t \in Threads, result \in BOOLEAN : Finished(t, result)
    \/ \E t \in Threads : Exit(t)

\* Every thread that can run does run; a caller that can proceed does.
RestartFairness ==
    /\ WF_vars(StartCall(Solo) \/ StartEnter(Solo) \/ StartReturn(Solo)
               \/ StopCall(Solo) \/ StopEnter(Solo) \/ StopReturn(Solo))
    /\ \A t \in Threads : WF_vars(NextRestart /\ pc'[t] # pc[t])

SpecRestart == InitRestart /\ [][NextRestart]_vars /\ RestartFairness

\* One caller starts the worker (again and again); every caller stops it.
\* The work loop is any the protocol allows.
NextStops ==
    \/ StartCall(Solo)
    \/ StartEnter(Solo)
    \/ StartReturn(Solo)
    \/ \E c \in Callers : StopCall(c)
    \/ \E c \in Callers : StopEnter(c)
    \/ \E c \in Callers : StopReturn(c)
    \/ \E t \in Threads : ThreadStep(t)
    \/ ContextTerminate

StopsFairness ==
    /\ \A c \in Callers : WF_vars(StartEnter(c) \/ StartReturn(c)
                                  \/ StopEnter(c) \/ StopReturn(c))
    /\ \A t \in Threads : WF_vars(ThreadStep(t) /\ pc'[t] # pc[t])

SpecStops == Init /\ [][NextStops]_vars /\ StopsFairness

\* One start() whose work loop reports started(false); every call after it
\* is a stop().
NextFailedStart ==
    \/ nspawned = 0 /\ StartPending = {} /\ StartCall(Solo)
    \/ StartEnter(Solo)
    \/ StartReturn(Solo)
    \/ \E c \in Callers : StopCall(c)
    \/ \E c \in Callers : StopEnter(c)
    \/ \E c \in Callers : StopReturn(c)
    \/ \E t \in Threads : Started(t, FALSE)
    \/ \E t \in Threads : AutoFinish(t)
    \/ \E t \in Threads : Exit(t)

\* The callers run, and a started() call once made runs to its end; nothing
\* else is asked of the work loop.
FailedStartFairness ==
    /\ \A c \in Callers : WF_vars(StartEnter(c) \/ StartReturn(c)
                                  \/ StopEnter(c) \/ StopReturn(c))
    /\ \A t \in Threads : WF_vars(Started(t, FALSE) \/ AutoFinish(t))

SpecFailedStart == Init /\ [][NextFailedStart]_vars /\ FailedStartFairness

\* The work loop of thread t, while it runs, forwards a message.
WorkForward(t) ==
    /\ pc[t] = "running"
    /\ \E recvErr, sendErr \in BOOLEAN : Forward(recvErr, sendErr)

\* The callers, every work loop the protocol allows, and the work loop's
\* forward() calls, on endpoints at which no message arrives.
NextFrame ==
    \/ \E c \in Callers : CallerStep(c)
    \/ \E t \in Threads : ThreadStep(t)
    \/ ContextTerminate
    \/ \E t \in Threads : WorkForward(t)

SpecFrame == Init /\ [][NextFrame]_vars

\* A step of a work loop that calls started(result) once, polls stopped()
\* and calls finished(result) once on exit; it never blocks in relay().
PollStep(t) ==
    \/ \E result \in BOOLEAN : Started(t, result)
    \/ SetPriority(t, "running")
    \/ AutoFinish(t)
    \/ Poll(t)
    \/ \E result \in BOOLEAN : Finished(t, result)
    \/ Exit(t)

\* Every caller issues start() and stop() in any interleaving; every work
\* loop polls.
NextPoll ==
    \/ \E c \in Callers : CallerStep(c)
    \/ \E t \in Threads : PollStep(t)

SpecPoll == Init /\ [][NextPoll]_vars

\* ------------------------------------------------------------------ claims

InStop(c) == cpc[c] \in {"stop_lock", "stop_wait"}

\* The caller's last call was op o and has returned.
Returned(c, o) == cpc[c] = "idle" /\ op[c] = o /\ ret[c] # <<>>

\* C1: a start() call that finds the running flag set returns false, spawns
\* no thread and neither waits on nor changes the start signal.
C1_StartWhileRunning ==
    [][\A c \in Callers :
         (cpc[c] = "start_lock" /\ cpc'[c] # "start_lock" /\ ~stopped_)
           => /\ cpc'[c] = "idle"
              /\ ret'[c] = <<FALSE>>
              /\ nspawned' = nspawned
              /\ pc' = pc
              /\ thread_' = thread_
              /\ started_' = started_
              /\ stopped_' = stopped_]_vars

\* A second start() has returned false while the first cycle's thread runs.
C1_Witness ==
    \E c \in Callers :
        /\ Returned(c, "start")
        /\ ret[c] = <<FALSE>>
        /\ spawnedBy[c] = NoThread
        /\ nspawned = 1
        /\ ~stopped_

\* C2: a stop() call that finds the worker stopped returns true, spawns no
\* thread, does not wait on the finish signal and leaves the running flag
\* and both signals as they are.
C2_StopWhileStopped ==
    [][\A c \in Callers :
         (cpc[c] = "stop_lock" /\ cpc'[c] # "stop_lock" /\ stopped_)
           => /\ cpc'[c] = "idle"
              /\ ret'[c] = <<TRUE>>
              /\ nspawned' = nspawned
              /\ pc' = pc
              /\ stopped_' = stopped_
              /\ started_' = started_
              /\ finished_' = finished_]_vars

\* stop() has returned true on a worker that was never started.
C2_Witness ==
    \E c \in Callers :
        /\ Returned(c, "stop")
        /\ ret[c] = <<TRUE>>
        /\ nspawned = 0
        /\ stopped_

\* Calls made so far in the restart scenario.
RestartCalls == 2 * MaxCycles - budget

\* What has to hold of every cycle of the restart scenario.
C3_EachCycle ==
    /\ Returned(Solo, "start")
         => /\ spawnedBy[Solo] # NoThread
            /\ spawnedBy[Solo] = thread_
            /\ nspawned = (RestartCalls + 1) \div 2
            /\ ret[Solo] = <<TRUE>>
    /\ Returned(Solo, "stop")
         => /\ thread_ # NoThread
            /\ nspawned = RestartCalls \div 2
            /\ tfin[thread_] # <<>>
            /\ ret[Solo] = tfin[thread_]

\* Every cycle of the restart scenario has completed.
C3_AllCycles ==
    /\ budget = 0
    /\ Returned(Solo, "stop")
    /\ nspawned = MaxCycles

\* C3: restart law.  start(); stop() repeated MaxCycles times, with a work
\* loop that calls started(true), polls stopped() and calls finished(r),
\* completes every time; each start() spawns a new thread and returns true,
\* each stop() returns the r of its own cycle.
C3_RestartLaw == [] C3_EachCycle /\ <> C3_AllCycles

\* All cycles are done, the first one reported false, the last one true.
C3_Witness ==
    /\ C3_AllCycles
    /\ tfin[1] = <<FALSE>>
    /\ ret[Solo] = <<TRUE>>

\* C4: when the work loop reports started(false), start() returns false and
\* every stop() call made concurrently with or after that start() returns
\* true, eventually, with nothing more asked of the work loop.
C4_FailedStartStop ==
    /\ [](\A c \in Callers :
            (Returned(c, "start") /\ spawnedBy[c] # NoThread) => ret[c] = <<FALSE>>)
    /\ [](\A c \in Callers : Returned(c, "stop") => ret[c] = <<TRUE>>)
    /\ \A c \in Callers : InStop(c) ~> Returned(c, "stop")

\* A stop() that found the worker running after the failed start has
\* returned true, the work loop having done nothing but call started(false).
C4_Witness ==
    \E c \in Callers :
        /\ Returned(c, "stop")
        /\ ret[c] = <<TRUE>>
        /\ gen = 1
        /\ acqGen[c] = 0
        /\ thread_ # NoThread
        /\ tstart[thread_] = <<FALSE>>
        /\ pc[thread_] = "finished"

\* Two start() calls raced for the lock of a stopped worker: b had invoked
\* start() when a took the lock and spawned, and no stop() ran in between.
Raced(a, b) ==
    /\ a # b
    /\ Returned(a, "start")
    /\ Returned(b, "start")
    /\ b \in conc[a]
    /\ spawnedBy[a] # NoThread
    /\ acqGen[a] = acqGen[b]

\* C5: of two concurrent start() calls on a stopped worker exactly one spawns
\* a thread and returns what the work loop passed to started(); the other
\* spawns nothing and returns false.  No further thread is spawned before a
\* stop() has run.
C5_ConcurrentStart ==
    \A a, b \in Callers :
        Raced(a, b)
          => /\ spawnedBy[b] = NoThread
             /\ ret[b] = <<FALSE>>
             /\ tstart[spawnedBy[a]] # <<>>
             /\ ret[a] = tstart[spawnedBy[a]]
             /\ gen = acqGen[a] => nspawned = spawnedBy[a]

\* Both racing calls have returned, the winner with the work loop's true.
C5_Witness ==
    \E a, b \in Callers : Raced(a, b) /\ ret[a] = <<TRUE>>

\* A background thread that has been spawned and has not exited.
Alive(t) == pc[t] \notin {"none", "exited", "threw"}

\* A background thread whose work loop has not yet called finished(), itself
\* or through started(false).
Working(t) ==
    pc[t] \in {"spawned", "set_true", "set_false", "running", "relay", "exiting"}

\* C6 as stated: at most one background thread is alive at any time, the
\* time between a work loop's finished() and the thread's exit included.
C6_AtMostOneAlive == Cardinality({t \in Threads : Alive(t)}) <= 1

\* C6 as amended: at most one background thread whose work loop has not yet
\* called finished() exists at any time.
C6_AtMostOneWorking == Cardinality({t \in Threads : Working(t)}) <= 1

\* A new cycle's thread works while the previous cycle's thread, past its
\* finished(), has not exited.
C6_Witness ==
    \E t, u \in Threads : pc[t] = "finished" /\ Working(u)

\* The caller's start() cycle ended with started(false) and no stop() has
\* found the worker running since.
FailedStart(c) ==
    /\ Returned(c, "start")
    /\ spawnedBy[c] # NoThread
    /\ spawnedBy[c] = thread_
    /\ tstart[thread_] = <<FALSE>>
    /\ acqGen[c] = gen

\* C7 as stated: after a start cycle whose work loop reported started(false)
\* the worker is stopped again, as a freshly constructed worker is.
C7_FailedStartIsStopped ==
    \A c \in Callers : FailedStart(c) => stopped_

\* C7 as amended: after a start cycle whose work loop reported started(false)
\* the running flag stays set and the finish signal holds true as soon as
\* started(false) has run to its end; a start() that follows returns false
\* and spawns nothing, until a stop() has consumed the finish signal.
C7_FailedStartStaysRunning ==
    /\ [](\A c \in Callers :
            FailedStart(c)
              => /\ ~stopped_
                 /\ \/ finished_ = <<TRUE>>
                    \/ pc[thread_] = "set_false")
    /\ [][\A c, d \in Callers :
            (FailedStart(c) /\ cpc[d] = "start_lock" /\ cpc'[d] # "start_lock")
              => /\ ret'[d] = <<FALSE>>
                 /\ nspawned' = nspawned]_vars

\* After the failed start a second start() has returned false without
\* spawning, the finish signal still holding the auto-finish value.
C7_Witness ==
    \E c, d \in Callers :
        /\ FailedStart(c)
        /\ finished_ = <<TRUE>>
        /\ Returned(d, "start")
        /\ spawnedBy[d] = NoThread
        /\ acqGen[d] = gen
        /\ nspawned = 1

\* C8: a start() call that spawned a thread returns only after that thread's
\* work loop has called started(r), and it returns that r.
C8_StartReturnsReport ==
    \A c \in Callers :
        (Returned(c, "start") /\ spawnedBy[c] # NoThread)
          => /\ tstart[spawnedBy[c]] # <<>>
             /\ ret[c] = tstart[spawnedBy[c]]

\* The second cycle's start() has returned its own report, which differs
\* from the first cycle's.
C8_Witness ==
    \E c \in Callers :
        /\ Returned(c, "start")
        /\ spawnedBy[c] = 2
        /\ tstart[1] # tstart[2]

\* The current cycle's work loop has called started().
StartReported == thread_ # NoThread /\ tstart[thread_] # <<>>

\* The current cycle's work loop is blocked in relay() and the context has
\* not been terminated.
RelayBlocked == thread_ # NoThread /\ pc[thread_] = "relay" /\ ~terminated

\* C9 as stated: under fair scheduling every stop() call returns, eventually,
\* once the work loop has called started(), whether the work loop polls
\* stopped() or is blocked in relay().
C9_StopReturns ==
    \A c \in Callers : (InStop(c) /\ StartReported) ~> Returned(c, "stop")

\* C9 as amended: under fair scheduling every stop() call returns,
\* eventually, unless the work loop is blocked in relay() with the context
\* not terminated; a work loop that polls stopped() and then calls
\* finished() always lets stop() return.
C9_StopReturnsUnlessRelay ==
    \A c \in Callers : InStop(c) ~> (Returned(c, "stop") \/ RelayBlocked)

\* A stop() that waited on a polling work loop has returned what that work
\* loop passed to finished(), with the context never terminated.
C9_Witness ==
    \E c \in Callers :
        /\ Returned(c, "stop")
        /\ acqGen[c] + 1 = gen
        /\ thread_ # NoThread
        /\ tstart[thread_] = <<TRUE>>
        /\ ret[c] = tfin[thread_]
        /\ ~terminated

\* C10: forward returns true exactly when the receive and the send both
\* succeed; send is invoked only after a successful receive, and once; the
\* message handed to send, and delivered, is the message received.
C10_Forward ==
    [][\A recvErr, sendErr \in BOOLEAN :
         Forward(recvErr, sendErr)
           => LET recvOk == ~recvErr /\ from # <<>>
                  sendOk == ~sendErr /\ Len(to) < MaxQueue
              IN /\ fwd'.result = (recvOk /\ sendOk)
                 /\ fwd'.sends = (IF recvOk THEN 1 ELSE 0)
                 /\ fwd'.sends = 1 => fwd'.sent = <<Head(from)>>
                 /\ from' = (IF recvOk THEN Tail(from) ELSE from)
                 /\ to' = (IF recvOk /\ sendOk THEN Append(to, Head(from))
                                               ELSE to)]_vars

\* A forward has returned true and its message is the newest one at the
\* destination, behind an older and different one.
C10_Witness ==
    /\ fwd.called
    /\ fwd.result
    /\ Len(to) = 2
    /\ <<to[2]>> = fwd.packet
    /\ to[1] # to[2]

\* C11: a stop() call that found the worker running returns only after
\* finished(r) has run for the current cycle (called by the work loop, or as
\* finished(true) by started(false)), and it returns that r.
C11_StopReturnsFinish ==
    [][\A c \in Callers :
         (cpc[c] = "stop_wait" /\ cpc'[c] # "stop_wait")
           => /\ thread_ # NoThread
              /\ pc[thread_] \in {"finished", "exited"}
              /\ tfin[thread_] # <<>>
              /\ ret'[c] = tfin[thread_]]_vars

\* A stop() has returned the false its cycle's work loop passed to finished().
C11_Witness ==
    \E c \in Callers :
        /\ Returned(c, "stop")
        /\ ret[c] = <<FALSE>>
        /\ thread_ # NoThread
        /\ tfin[thread_] = <<FALSE>>

\* C12: a thread is spawned only when the work loop of every earlier cycle
\* has completed its finished() call.
C12_SpawnAfterFinished ==
    [][nspawned' # nspawned
         => \A t \in 1..nspawned :
              /\ tfin[t] # <<>>
              /\ pc[t] \in {"finished", "exited"}]_vars

\* The second cycle's thread has been spawned, after the first cycle's
\* finished().
C12_Witness ==
    /\ nspawned = 2
    /\ pc[2] = "spawned"
    /\ tfin[1] # <<>>

\* C13: the priority hint is applied once in a cycle whose work loop called
\* started(true), after the start signal was set, and never in a cycle whose
\* work loop called started(false).
C13_PriorityOnce ==
    \A t \in Threads :
        /\ nprio[t] <= 1
        /\ nprio[t] = 1 => tstart[t] = <<TRUE>>
        /\ tstart[t] = <<FALSE>> => nprio[t] = 0
        /\ (tstart[t] = <<TRUE>> /\ pc[t] # "set_true") => nprio[t] = 1

\* One cycle reported started(false) and got no priority, another reported
\* started(true) and got it once.
C13_Witness ==
    \E t, u \in Threads :
        /\ tstart[t] = <<FALSE>> /\ nprio[t] = 0 /\ pc[t] = "exited"
        /\ tstart[u] = <<TRUE>> /\ nprio[u] = 1

\* A caller is inside start() or stop() and holds the lock, or takes it in
\* this step.
LockedStep(c) ==
    \/ mutex_ = c
    \/ /\ cpc[c] \in {"start_lock", "stop_lock"}
       /\ mutex_ = NoCaller
       /\ cpc'[c] # cpc[c]

\* C14: the running flag changes only in a step of start() or stop() made
\* with the lock held; started(), finished(), stopped(), forward() and
\* relay() leave it as it is; a start() or stop() that finds the worker in
\* its target state changes nothing of the worker.
C14_FlagFrame ==
    [][/\ stopped_' # stopped_ => \E c \in Callers : LockedStep(c)
       /\ (\A c \in Callers : cpc'[c] = cpc[c]) => stopped_' = stopped_
       /\ \A c \in Callers :
            (/\ cpc'[c] # cpc[c]
             /\ \/ cpc[c] = "start_lock" /\ ~stopped_
                \/ cpc[c] = "stop_lock" /\ stopped_)
              => UNCHANGED <<workerVars, threadVars, gen>>]_vars

\* The flag is set by a waiting stop() while the work loop, which has just
\* called forward(), still runs.
C14_Witness ==
    \E c \in Callers, t \in Threads :
        /\ cpc[c] = "stop_wait"
        /\ stopped_
        /\ pc[t] = "running"
        /\ fwd.called

\* Callers blocked on the start signal, and on the finish signal.
StartWaiters == {c \in Callers : cpc[c] = "start_wait"}
StopWaiters == {c \in Callers : cpc[c] = "stop_wait"}

\* What holds of the two signals in every state.
C15_Signals ==
    /\ \A t \in Threads : pc[t] # "threw"
    /\ started_ # <<>>
         => /\ thread_ # NoThread
            /\ started_ = tstart[thread_]
            /\ StartWaiters # {}
    /\ finished_ # <<>>
         => /\ thread_ # NoThread
            /\ finished_ = tfin[thread_]
    /\ gets.started = nspawned - Cardinality(StartWaiters)
    /\ gets.finished = gen - Cardinality(StopWaiters)
    /\ gets.finished <= gets.started

\* C15: with a work loop that calls started() once a cycle, and finished()
\* once and only after started(true): each signal is set at most once
\* between two resets (no set_value ever finds a value), each signal of a
\* cycle is read by one start()/stop() call, and at every spawn both signals
\* are unset, every earlier cycle's signals having been read once.
C15_SignalsOncePerCycle ==
    /\ [] C15_Signals
    /\ [][nspawned' # nspawned
            => /\ started_ = <<>>
               /\ finished_ = <<>>
               /\ gets.started = nspawned
               /\ gets.finished = nspawned]_vars

\* The second cycle's thread has just been spawned: both signals are unset
\* and each has been read once.
C15_Witness ==
    /\ nspawned = 2
    /\ pc[2] = "spawned"
    /\ started_ = <<>>
    /\ finished_ = <<>>
    /\ gets = [started |-> 1, finished |-> 1]

\* No start() or stop() call is in progress.
NoCallInProgress == \A c \in Callers : cpc[c] = "idle"

\* C16 as stated: whenever the worker is stopped (flag clear of running, no
\* start()/stop() in progress) the thread handle is null; a completed stop()
\* leaves no handle behind.
C16_NullWhenStopped ==
    (stopped_ /\ NoCallInProgress) => thread_ = NoThread

\* C16 amended: the thread handle is null only until the first spawn; from
\* then on it always holds the most recently spawned thread, and stop()
\* leaves it in place.
C16_HandleKept ==
    /\ thread_ = nspawned
    /\ thread_ = NoThread <=> \A t \in Threads : pc[t] = "none"

\* One start() and one stop() have been made and the stop() has completed:
\* the worker is stopped with no call in progress, and the handle still holds
\* the thread of the cycle just stopped.
C16_Witness ==
    /\ stopped_
    /\ NoCallInProgress
    /\ \E c \in Callers : Returned(c, "stop")
    /\ budget + 2 = MaxCalls
    /\ thread_ # NoThread

\* C17: a thread blocked in relay() leaves relay only when the context has
\* been terminated; the running flag being cleared by stop() never makes
\* relay return.
C17_RelayOnlyOnTerminate ==
    [][\A t \in Threads :
         (pc[t] = "relay" /\ pc'[t] # "relay") => terminated]_vars

\* A stop() has cleared the flag and waits, the thread is still in relay().
C17_Witness ==
    \E t \in Threads :
        /\ pc[t] = "relay"
        /\ stopped
        /\ ~terminated
        /\ \E c \in Callers : cpc[c] = "stop_wait"

\* The caller is inside start() or stop(), blocked on the lock or on a
\* signal.
Blocked(c) == cpc[c] \in {"start_lock", "start_wait", "stop_lock", "stop_wait"}

\* A step that takes a blocked caller further, or a step of a work loop on
\* its way to finished(); new calls, polls that find the flag unchanged and
\* thread exits do not count.
Progress ==
    \/ \E c \in Callers :
         StartEnter(c) \/ StartReturn(c) \/ StopEnter(c) \/ StopReturn(c)
    \/ \E t \in Threads : PollStep(t) /\ pc'[t] # pc[t] /\ pc'[t] # "exited"

\* C18: with every caller issuing start() and stop() in any interleaving and
\* work loops that call started(), poll stopped() and call finished() on
\* exit, no reachable state is a deadlock: whenever a caller is blocked on
\* the lock or on a signal, some caller or work loop can take a step.
C18_NoDeadlock == (\E c \in Callers : Blocked(c)) => ENABLED Progress

\* One stop() waits on the finish signal of a work loop that still runs,
\* another caller waits for the lock.
C18_Witness ==
    \E c, d \in Callers :
        /\ cpc[c] = "stop_wait"
        /\ cpc[d] \in {"start_lock", "stop_lock"}
        /\ finished_ = <<>>
        /\ pc[thread_] = "running"

\* C19: from the spawn until the work loop has called started(), stopped()
\* returns false: the spawning start() still holds the lock, waiting on the
\* start signal, so no stop() has been able to set the stop request.
C19_NoStopBeforeStarted ==
    \A t \in Threads :
        pc[t] = "spawned"
          => /\ ~stopped
             /\ mutex_ # NoCaller
             /\ cpc[mutex_] = "start_wait"
             /\ spawnedBy[mutex_] = t

\* The thread is spawned and has not yet called started(), while a
\* concurrent stop() is blocked on the lock.
C19_Witness ==
    \E t \in Threads :
        /\ pc[t] = "spawned"
        /\ \E d \in Callers : cpc[d] = "stop_lock"

====
